---- MODULE Spec2Model ----
(***************************************************************************)
(* Model of the dashboard server (src/server.py): the CSV reader, the      *)
(* snapshot computation, the publisher loop that broadcasts changed        *)
(* categories to the SSE subscriber queues, and the SSE endpoint.          *)
(*                                                                         *)
(* Numbers.  Python floats are modelled over integers: temperature in      *)
(* degrees, vibration in hundredths, energy in kWh, timestamp in seconds,  *)
(* CO2 in grams (kWh * 475), averages as reduced fractions.  The additions *)
(* of sum(temps) round to nearest, ties to even, as float additions do,    *)
(* in a significand of MantissaBits bits (53 in CPython).  The sums of CO2, *)
(* whose terms such a significand cannot hold, and the divisions,          *)
(* products and comparisons are kept exact.                                *)
(*                                                                         *)
(* Python values of a CSV cell are tagged records [kind, val]:             *)
(*   "numtext"  text that float() parses (val is the number)               *)
(*   "badtext"  non-empty text that float() rejects with ValueError        *)
(*   "empty"    the empty string                                           *)
(*   "none"     None (DictReader's filler for a short row)                 *)
(*   "float"    a float produced by float()                                *)
(***************************************************************************)
EXTENDS Integers, Sequences, FiniteSets, TLC

VARIABLES
    file,           \* data rows of ./data/sensors.csv, in file order (raw cells)
    source,         \* condition of the file: "ok", "missing" or "unreadable"
    rows,           \* publisher_loop's local `rows` of the latest tick
    state,          \* the module-level dict `state`
    last_snapshots, \* publisher_loop's local dict; <<>> is None, <<p>> is p
    subscribers,    \* the module-level set of queues (queue ids)
    queue,          \* contents of every asyncio.Queue created so far
    conn,           \* per queue: the SSE connection / event_generator position
    clock,          \* number of completed ticks; stands for utcnow().isoformat()
    pc,             \* publisher task: "running" or "crashed" (uncaught exception)
    raised,         \* history: per queue, the category whose put_nowait raised in the latest tick
    stale,          \* history: per queue, ticks it stayed registered through after its client
                    \* disconnected (counted up to DeregisterTicks)
    response        \* the latest response of a pull endpoint; <<>> before the first

vars == <<file, source, rows, state, last_snapshots, subscribers, queue, conn,
          clock, pc, raised, stale, response>>

---------------------------------------------------------------------------
(* Bounds of the model *)
MaxRows == 1
MaxSnapshotRows == 3
MaxMachines == 10
MaxTicks == 2
MaxSubscribers == 1
MaxFanout == 2
DeregisterTicks == 2
MantissaBits == 7

(* Program constants *)
TEMPERATURE_MULTIPLIER_TENTHS == 12
VIBRATION_THRESHOLD == 80
CO2_EMISSION_FACTOR == 475

Keys == <<"alerts", "emissions", "status">>
KeySet == {"alerts", "emissions", "status"}
\* every asyncio.Queue the run may create
QueueIds == DOMAIN queue

---------------------------------------------------------------------------
(* Python values *)
Float(n) == [kind |-> "float", val |-> n]
NumText(n) == [kind |-> "numtext", val |-> n]
BadText == [kind |-> "badtext", val |-> 0]
EmptyText == [kind |-> "empty", val |-> 0]
NoneVal == [kind |-> "none", val |-> 0]

None == <<>>
Some(x) == <<x>>

\* isinstance(x, (int, float))
IsNumber(x) == x.kind = "float"

\* dict.get(k, default)
Get(r, k, default) == IF k \in DOMAIN r THEN r[k] ELSE default

RECURSIVE GCD(_, _)
GCD(a, b) == IF b = 0 THEN a ELSE GCD(b, a % b)

\* the rational n/d in lowest terms (d > 0, n >= 0)
Frac(n, d) == LET g == GCD(n, d) IN [num |-> n \div g, den |-> d \div g]

RECURSIVE SeqSum(_)
SeqSum(s) == IF s = <<>> THEN 0 ELSE Head(s) + SeqSum(Tail(s))

RECURSIVE Pow2(_)
Pow2(n) == IF n = 0 THEN 1 ELSE 2 * Pow2(n - 1)

\* the spacing of the floats around n >= 0: 1 below 2^MantissaBits, doubling
\* with every further bit
RECURSIVE Ulp(_, _)
Ulp(n, u) == IF n < Pow2(MantissaBits) * u THEN u ELSE Ulp(n, 2 * u)

\* the float nearest to n, the one with the even significand on a tie
Round(n) ==
    LET u == Ulp(n, 1)
        q == n \div u
        r == n % u
    IN IF 2 * r > u \/ (2 * r = u /\ q % 2 = 1) THEN (q + 1) * u ELSE q * u

\* sum(s) of a list of floats: 0 + s[1] + s[2] + ..., rounding every addition
RECURSIVE FloatSum(_)
FloatSum(s) == IF s = <<>> THEN 0
               ELSE Round(FloatSum(SubSeq(s, 1, Len(s) - 1)) + s[Len(s)])

RECURSIVE SeqMax(_)
SeqMax(s) == IF Len(s) = 1 THEN s[1]
             ELSE LET m == SeqMax(Tail(s)) IN IF s[1] >= m THEN s[1] ELSE m

---------------------------------------------------------------------------
(* read_csv_rows *)

\* lines 45-51: float(r[k]) for a non-empty cell, the cell kept when float() raises
ParseField(c) == IF c.kind = "numtext" THEN Float(c.val) ELSE c

ParseRow(r) == [r EXCEPT !.timestamp = ParseField(@),
                         !.temperature = ParseField(@),
                         !.vibration = ParseField(@),
                         !.energy_consumption = ParseField(@)]

\* `exists` is path.exists(); `cut` is the number of rows read before the
\* reader raised (Len(f) when it did not raise)
read_csv_rows(f, exists, cut) ==
    IF ~exists THEN <<>> ELSE [i \in 1..cut |-> ParseRow(f[i])]

---------------------------------------------------------------------------
(* compute_snapshots *)

mid(r) == Get(r, "machine_id", "unknown")

\* keys of by_machine in insertion order (first appearance in rows)
RECURSIVE MachineOrder(_)
MachineOrder(rs) ==
    IF rs = <<>> THEN <<>>
    ELSE LET before == MachineOrder(SubSeq(rs, 1, Len(rs) - 1))
             m == mid(rs[Len(rs)])
         IN IF \E i \in 1..Len(before) : before[i] = m THEN before
            ELSE Append(before, m)

by_machine(rs, m) == SelectSeq(rs, LAMBDA r : mid(r) = m)

\* (r.get("energy_consumption") or 0.0): falsy values are "", None and 0.0
EnergyOrZero(r) ==
    LET e == Get(r, "energy_consumption", NoneVal)
    IN IF e.kind \in {"empty", "none"} THEN Float(0) ELSE e

\* line 76 multiplies a str by a float when the cell kept unparsable text
Co2Raises(recs) == \E i \in 1..Len(recs) : ~IsNumber(EnergyOrZero(recs[i]))

cumulative_co2(recs) ==
    SeqSum([i \in 1..Len(recs) |-> EnergyOrZero(recs[i]).val * CO2_EMISSION_FACTOR])

NumbersOf(recs, k) ==
    LET sel == SelectSeq(recs, LAMBDA r : IsNumber(Get(r, k, NoneVal)))
    IN [i \in 1..Len(sel) |-> sel[i][k].val]

temps(recs) == NumbersOf(recs, "temperature")
vibs(recs) == NumbersOf(recs, "vibration")

avg_temp(recs) == IF temps(recs) # <<>> THEN Frac(FloatSum(temps(recs)), Len(temps(recs)))
                  ELSE Frac(0, 1)
max_temp_latest(recs) == IF temps(recs) # <<>> THEN temps(recs)[Len(temps(recs))] ELSE 0

max_temp(recs) == IF temps(recs) # <<>> THEN SeqMax(temps(recs)) ELSE 0
\* the vibration of the reading that arrived last
max_vib_latest(recs) == IF vibs(recs) # <<>> THEN vibs(recs)[Len(vibs(recs))] ELSE 0

max_vib(recs) == IF vibs(recs) # <<>> THEN SeqMax(vibs(recs)) ELSE 0

\* temps and max_temp > avg_temp * TEMPERATURE_MULTIPLIER
TempSpike(recs) ==
    /\ temps(recs) # <<>>
    /\ max_temp(recs) * avg_temp(recs).den * 10
          > avg_temp(recs).num * TEMPERATURE_MULTIPLIER_TENTHS

\* vibs and max_vib > VIBRATION_THRESHOLD
HighVibration(recs) == vibs(recs) # <<>> /\ max_vib(recs) > VIBRATION_THRESHOLD

Alerting(recs) == TempSpike(recs) \/ HighVibration(recs)

\* max(recs, key=lambda x: x.get("timestamp", 0)): the first record with the
\* largest key; the comparison and fromtimestamp() raise TypeError unless
\* every key is a number
LatestRaises(recs) ==
    \E i \in 1..Len(recs) : ~IsNumber(Get(recs[i], "timestamp", Float(0)))

\* the record that arrived last
latest_arrived(recs) == recs[Len(recs)]

latest(recs) ==
    LET ts(i) == Get(recs[i], "timestamp", Float(0)).val
        best == CHOOSE i \in 1..Len(recs) :
                    /\ \A j \in 1..Len(recs) : ts(j) <= ts(i)
                    /\ \A j \in 1..(i - 1) : ts(j) < ts(i)
    IN recs[best]

\* datetime.fromtimestamp(t).isoformat(): the text of the second t
isoformat(t) == [isoformat |-> t]

kind_vibration_first(recs) == IF HighVibration(recs) THEN "HIGH_VIBRATION" ELSE "TEMP_SPIKE"

kind(recs) == IF TempSpike(recs) THEN "TEMP_SPIKE" ELSE "HIGH_VIBRATION"

severity_by_kind(recs) == IF kind(recs) = "TEMP_SPIKE" THEN "HIGH" ELSE "MEDIUM"

severity(recs) ==
    IF kind(recs) = "TEMP_SPIKE" \/ max_vib(recs) * 10 > VIBRATION_THRESHOLD * 12
    THEN "HIGH" ELSE "MEDIUM"

alert(m, recs) ==
    [machine_id |-> m,
     anomaly_type |-> kind(recs),
     current_temperature |-> Get(latest(recs), "temperature", NoneVal),
     avg_temperature |-> avg_temp(recs),
     current_vibration |-> Get(latest(recs), "vibration", NoneVal),
     alert_time |-> isoformat(Get(latest(recs), "timestamp", Float(0)).val),
     severity |-> severity(recs)]

\* an exception escapes compute_snapshots
ComputeRaises(rs) ==
    \E i \in 1..Len(MachineOrder(rs)) :
        LET recs == by_machine(rs, MachineOrder(rs)[i])
        IN Co2Raises(recs) \/ (Alerting(recs) /\ LatestRaises(recs))

emissions_unsorted(rs) ==
    LET ms == MachineOrder(rs)
    IN [i \in 1..Len(ms) |->
          [machine_id |-> ms[i], cumulative_co2_kg |-> cumulative_co2(by_machine(rs, ms[i]))]]

RECURSIVE alerts_each_condition(_, _)
alerts_each_condition(rs, ms) ==
    IF ms = <<>> THEN <<>>
    ELSE LET recs == by_machine(rs, Head(ms))
         IN (IF TempSpike(recs)
             THEN <<[alert(Head(ms), recs) EXCEPT !.anomaly_type = "TEMP_SPIKE"]>>
             ELSE <<>>)
            \o (IF HighVibration(recs)
                THEN <<[alert(Head(ms), recs) EXCEPT !.anomaly_type = "HIGH_VIBRATION"]>>
                ELSE <<>>)
            \o alerts_each_condition(rs, Tail(ms))

alerts_per_condition(rs) == alerts_each_condition(rs, MachineOrder(rs))

\* lines 93-105: one alert for each machine whose condition holds, in the
\* iteration order of by_machine
alerts_of(rs) ==
    LET ms == MachineOrder(rs)
        hit == SelectSeq(ms, LAMBDA m : Alerting(by_machine(rs, m)))
    IN [i \in 1..Len(hit) |-> alert(hit[i], by_machine(rs, hit[i]))]

\* lines 72 and 94: the counter incremented once for each alerting machine
total_anomalies(rs) ==
    Cardinality({i \in 1..Len(MachineOrder(rs)) :
                    Alerting(by_machine(rs, MachineOrder(rs)[i]))})

system_health_inclusive(anomalies, active_machines) ==
    LET quarter == active_machines \div 4
        limit == IF quarter > 1 THEN quarter ELSE 1
    IN IF anomalies = 0 THEN "HEALTHY"
       ELSE IF anomalies <= limit THEN "DEGRADED"
       ELSE "CRITICAL"

system_health(anomalies, active_machines) ==
    LET quarter == active_machines \div 4
        limit == IF quarter > 1 THEN quarter ELSE 1
    IN IF anomalies = 0 THEN "HEALTHY"
       ELSE IF anomalies < limit THEN "DEGRADED"
       ELSE "CRITICAL"

status_of(rs) ==
    LET em == emissions_unsorted(rs)
        active_machines == Len(MachineOrder(rs))
        total_co2 == SeqSum([i \in 1..Len(em) |-> em[i].cumulative_co2_kg])
    IN [system_health |-> system_health(total_anomalies(rs), active_machines),
        total_records_processed |-> Len(rs),
        active_machines |-> active_machines,
        total_anomalies_detected |-> total_anomalies(rs),
        avg_co2_per_machine |-> IF active_machines # 0
                                THEN Frac(total_co2, active_machines)
                                ELSE Frac(0, 1)]

\* sorted(emissions, key=cumulative_co2_kg, reverse=True): a stable sort, so
\* records with equal keys keep their order in `emissions`
RECURSIVE sorted_desc(_)
sorted_desc(s) ==
    IF s = <<>> THEN <<>>
    ELSE LET rest == sorted_desc(SubSeq(s, 1, Len(s) - 1))
             x == s[Len(s)]
             pos == Cardinality({i \in 1..Len(rest) :
                                    rest[i].cumulative_co2_kg >= x.cumulative_co2_kg})
         IN SubSeq(rest, 1, pos) \o <<x>> \o SubSeq(rest, pos + 1, Len(rest))

compute_snapshots(rs) ==
    [alerts |-> alerts_of(rs),
     emissions |-> sorted_desc(emissions_unsorted(rs)),
     status |-> status_of(rs)]

---------------------------------------------------------------------------
(* The input: rows the data generator may append to the file *)

Row(ts, m, t, v, e) ==
    [timestamp |-> ts, machine_id |-> m, temperature |-> t,
     vibration |-> v, energy_consumption |-> e]

\* rows fed to the publisher protocol: a normal reading, an alerting one, one
\* with an unparsable temperature and one with an unparsable energy
FeedRows ==
    { Row(NumText(1), "M1", NumText(60), NumText(30), NumText(10)),
      Row(NumText(3), "M2", NumText(70), NumText(90), NumText(10)),
      Row(NumText(5), "M1", NumText(60), NumText(30), BadText) }

\* rows fed to the snapshot computation
Samples ==
    FeedRows \cup
    { Row(NumText(4), "M2", BadText, NumText(30), EmptyText),
      Row(NumText(2), "M1", NumText(100), NumText(30), NumText(10)),
      Row(NumText(2), "M1", NumText(100), NumText(90), NumText(20)),
      Row(BadText, "M2", NumText(70), NumText(90), NumText(10)),
      Row(NumText(6), "", NumText(60), BadText, NumText(10)),
      Row(NumText(7), "M1", NumText(60), NumText(100), NumText(10)),
      Row(NumText(8), "M2", NumText(69), NumText(30), NumText(10)) }

\* rows fed to the publisher while a subscriber keeps what it is sent
HistoryRows ==
    { Row(NumText(1), "M1", NumText(60), NumText(30), NumText(10)),
      Row(NumText(2), "M1", NumText(100), NumText(30), NumText(10)),
      Row(NumText(3), "M2", NumText(70), NumText(90), NumText(10)),
      Row(NumText(8), "M2", NumText(69), NumText(30), NumText(10)),
      Row(NumText(4), "M2", BadText, NumText(30), EmptyText) }

MachineNames == <<"M1", "M2", "M3", "M4", "M5", "M6", "M7", "M8", "M9", "M10",
                  "M11", "M12">>

\* a file with one reading for each of n machines, the first k of them with a
\* vibration above the threshold
FleetFile(n, k) ==
    [i \in 1..n |-> Row(NumText(i), MachineNames[i], NumText(70),
                        NumText(IF i <= k THEN 90 ELSE 30), NumText(10))]

---------------------------------------------------------------------------
(* State after import and on_startup *)

EmptyDict == [k \in {} |-> 0]

\* the module's globals and the publisher's locals before the first tick, with
\* file content f and room for the queues ids
Start(f, ids) ==
    /\ file = f
    /\ rows = <<>>
    /\ state = [alerts |-> <<>>, emissions |-> <<>>, status |-> EmptyDict,
                last_update |-> None]
    /\ last_snapshots = [k \in KeySet |-> None]
    /\ subscribers = {}
    /\ queue = [q \in ids |-> <<>>]
    /\ conn = [q \in ids |-> "unused"]
    /\ clock = 0
    /\ pc = "running"
    /\ raised = [q \in ids |-> "none"]
    /\ stale = [q \in ids |-> 0]
    /\ response = None

Init == Start(<<>>, 1..MaxSubscribers) /\ source \in {"ok", "missing"}

---------------------------------------------------------------------------
(* publisher_loop *)

\* a dump that gives None the text of the empty list
json_dumps_none_as_list(opt) == IF opt = None THEN [null |-> FALSE, doc |-> Some(<<>>)]
                               ELSE [null |-> FALSE, doc |-> opt]

\* json.dumps(x, sort_keys=True) of an optional payload: None dumps to "null",
\* which no list or dict dumps to; a payload dumps to a text that is the same
\* for two payloads exactly when they are equal as values whatever the order
\* of their dict keys (records carry no key order)
json_dumps(opt) == IF opt = None THEN [null |-> TRUE, doc |-> <<>>]
                   ELSE [null |-> FALSE, doc |-> opt]

changed_always(key, payload, last) == TRUE

\* a test that holds only until the category has been published once
changed_once(key, payload, last) == last[key] = None

\* line 144: the category differs from what was last published

changed(key, payload, last) == json_dumps(Some(payload[key])) # json_dumps(last[key])

message(key, payload, now) == [type |-> key, data |-> payload[key], last_update |-> now]

\* lines 147-154 without the try: the first put_nowait that raises ends the
\* loop, nobody else is sent the message and nobody is discarded
put_all_unguarded(data, dead, acc) ==
    [subs |-> acc.subs,
     queue |-> [q \in QueueIds |->
                  IF q \in acc.subs /\ dead = {} THEN Append(acc.queue[q], data)
                  ELSE acc.queue[q]],
     raised |-> [q \in QueueIds |-> IF q \in dead THEN data.type ELSE acc.raised[q]]]

\* lines 147-154: data is put on the queue of every subscriber; the queues in
\* `dead` are those whose put_nowait raises, and they are discarded after the loop
put_all(data, dead, acc) ==
    [subs |-> acc.subs \ dead,
     queue |-> [q \in QueueIds |->
                  IF q \in acc.subs \ dead THEN Append(acc.queue[q], data)
                  ELSE acc.queue[q]],
     raised |-> [q \in QueueIds |-> IF q \in dead THEN data.type ELSE acc.raised[q]]]

\* lines 143-154 for Keys[i..3]; acc is [last, subs, queue, raised];
\* failAt[q] is the category whose put_nowait raises for q ("none": never)
RECURSIVE broadcast(_, _, _, _, _)
broadcast(i, payload, now, failAt, acc) ==
    IF i > Len(Keys) THEN acc
    ELSE LET key == Keys[i]
         IN IF changed(key, payload, acc.last)
            THEN LET out == put_all(message(key, payload, now),
                                    {q \in acc.subs : failAt[q] = key}, acc)
                 IN broadcast(i + 1, payload, now, failAt,
                      [last |-> [acc.last EXCEPT ![key] = Some(payload[key])],
                       subs |-> out.subs,
                       queue |-> out.queue,
                       raised |-> out.raised])
            ELSE broadcast(i + 1, payload, now, failAt, acc)

\* the numbers of rows read_csv_rows may have read when it returns
Cuts == IF source = "ok" THEN {Len(file)}
        ELSE IF source = "missing" THEN {0}
        ELSE {n \in 0..Len(file) : n < Len(file) \/ n = 0}

\* an iteration that yields to the event loop after line 136: it has assigned
\* state["alerts"] and nothing else yet
Tick_torn(mayRaise) ==
    /\ pc = "running"
    /\ clock < MaxTicks
    /\ \E rs \in {read_csv_rows(file, source # "missing", Len(file))} :
        /\ ~ComputeRaises(rs)
        /\ rows' = rs
        /\ state' = [state EXCEPT !.alerts = compute_snapshots(rs).alerts]
    /\ UNCHANGED <<file, source, last_snapshots, subscribers, queue, conn, clock,
                   pc, raised, stale, response>>

\* one iteration of the while loop, from read_csv_rows to asyncio.sleep;
\* nothing in it awaits, so it is one step of the event loop.  The queues of
\* line 210 are unbounded, so put_nowait has no QueueFull to raise; mayRaise
\* tells whether the step nevertheless lets a put_nowait raise
Tick(mayRaise) ==
    /\ pc = "running"
    /\ clock < MaxTicks
    /\ \E cut \in Cuts : \E rs \in {read_csv_rows(file, source # "missing", cut)} :
        /\ rows' = rs
        /\ IF ComputeRaises(rs)
           THEN /\ pc' = "crashed"
                /\ UNCHANGED <<state, last_snapshots, subscribers, queue,
                               clock, raised, stale>>
           ELSE \E snap \in {compute_snapshots(rs)} :
                LET now == clock + 1
                    payload == [alerts |-> snap.alerts,
                                emissions |-> snap.emissions,
                                status |-> snap.status,
                                last_update |-> now]
                    \* the categories for which put_nowait is called
                    puts == {k \in KeySet : changed(k, payload, last_snapshots)}
                IN /\ state' = [alerts |-> snap.alerts,
                                emissions |-> snap.emissions,
                                status |-> snap.status,
                                last_update |-> Some(now)]
                   /\ clock' = now
                   /\ pc' = pc
                   /\ \E failAt \in [subscribers -> IF mayRaise THEN puts \cup {"none"}
                                                   ELSE {"none"}] :
                      \E out \in {broadcast(1, payload, now,
                                     [q \in QueueIds |->
                                        IF q \in subscribers THEN failAt[q]
                                        ELSE "none"],
                                     [last |-> last_snapshots,
                                      subs |-> subscribers,
                                      queue |-> queue,
                                      raised |-> [q \in QueueIds |-> "none"]])} :
                        /\ last_snapshots' = out.last
                        /\ subscribers' = out.subs
                        /\ queue' = out.queue
                        /\ raised' = out.raised
                        /\ stale' = [q \in QueueIds |->
                              IF /\ conn[q] = "disconnected"
                                 /\ q \in out.subs
                                 /\ stale[q] < DeregisterTicks
                              THEN stale[q] + 1 ELSE stale[q]]
    /\ UNCHANGED <<file, source, conn, response>>

---------------------------------------------------------------------------
(* sse_stream *)

\* a registration that first puts the published state on the new queue
Subscribe_replay ==
    /\ \E q \in QueueIds :
        /\ conn[q] = "unused"
        /\ \A p \in QueueIds : p < q => conn[p] # "unused"
        /\ queue' = [queue EXCEPT ![q] =
                        IF clock = 0 THEN <<>>
                        ELSE [i \in 1..Len(Keys) |-> message(Keys[i], state, clock)]]
        /\ subscribers' = subscribers \cup {q}
        /\ conn' = [conn EXCEPT ![q] = "open"]
    /\ UNCHANGED <<file, source, rows, state, last_snapshots, clock, pc, raised,
                   stale, response>>

\* lines 210-212: a new queue is created and registered
Subscribe ==
    /\ \E q \in QueueIds :
        /\ conn[q] = "unused"
        /\ \A p \in QueueIds : p < q => conn[p] # "unused"
        /\ queue' = [queue EXCEPT ![q] = <<>>]
        /\ subscribers' = subscribers \cup {q}
        /\ conn' = [conn EXCEPT ![q] = "open"]
    /\ UNCHANGED <<file, source, rows, state, last_snapshots, clock, pc, raised,
                   stale, response>>

\* lines 199-206: the client is connected, q.get() returns the oldest message
\* and it is yielded
Deliver(q) ==
    /\ conn[q] = "open"
    /\ queue[q] # <<>>
    /\ queue' = [queue EXCEPT ![q] = Tail(@)]
    /\ UNCHANGED <<file, source, rows, state, last_snapshots, subscribers, conn,
                   clock, pc, raised, stale, response>>

\* the client closes the connection; the generator then leaves its loop at
\* line 201 and its finally clause (lines 207-208) does nothing
Disconnect(q) ==
    /\ conn[q] = "open"
    /\ conn' = [conn EXCEPT ![q] = "disconnected"]
    /\ UNCHANGED <<file, source, rows, state, last_snapshots, subscribers, queue,
                   clock, pc, raised, stale, response>>

---------------------------------------------------------------------------
(* The pull endpoints *)

\* lines 173-185: JSONResponse(state[key])
pull(key) ==
    /\ response' = Some([endpoint |-> key, body |-> state[key]])
    /\ UNCHANGED <<file, source, rows, state, last_snapshots, subscribers, queue,
                   conn, clock, pc, raised, stale>>

get_alerts == pull("alerts")

get_emissions == pull("emissions")

get_status == pull("status")

---------------------------------------------------------------------------
(* The environment of the server: the data file *)

AppendRow(r, max) ==
    /\ source = "ok"
    /\ Len(file) < max
    /\ file' = Append(file, r)
    /\ UNCHANGED <<source, rows, state, last_snapshots, subscribers, queue, conn,
                   clock, pc, raised, stale, response>>

SourceChange(s) ==
    /\ source # s
    /\ source' = s
    /\ UNCHANGED <<file, rows, state, last_snapshots, subscribers, queue, conn,
                   clock, pc, raised, stale, response>>

Feed == \E r \in FeedRows : AppendRow(r, MaxRows)

FeedHistory == \E r \in HistoryRows : AppendRow(r, MaxSnapshotRows)

FeedSample == \E r \in Samples : AppendRow(r, MaxSnapshotRows)

\* the server with its subscribers
Next ==
    \/ Tick(FALSE)
    \/ Subscribe
    \/ \E q \in QueueIds : Deliver(q)
    \/ \E q \in QueueIds : Disconnect(q)
    \/ Feed
    \/ \E s \in {"ok", "missing", "unreadable"} : SourceChange(s)

Spec == Init /\ [][Next]_vars

\* the fan-out to several subscribers that never read their queues, where a
\* put_nowait may raise
FanoutInit == Start(<<>>, 1..MaxFanout) /\ source = "ok"

FanoutNext == Tick(TRUE) \/ Subscribe \/ Feed

FanoutSpec == FanoutInit /\ [][FanoutNext]_vars

\* the pull endpoints beside the publisher, nobody subscribed
PullInit == Start(<<>>, {}) /\ source \in {"ok", "missing"}

PullNext ==
    \/ Tick(FALSE)
    \/ get_alerts
    \/ get_emissions
    \/ get_status
    \/ Feed
    \/ \E s \in {"ok", "missing"} : SourceChange(s)

PullSpec == PullInit /\ [][PullNext]_vars

\* the snapshot computation on a growing readable file, nobody subscribed
SnapshotInit == Start(<<>>, {}) /\ source = "ok"

SnapshotNext == Tick(FALSE) \/ FeedSample

SnapshotSpec == SnapshotInit /\ [][SnapshotNext]_vars

\* the publisher on a growing readable file, with one subscriber that never
\* reads its queue
HistoryInit == Start(<<>>, {1}) /\ source = "ok"

HistoryNext == Tick(FALSE) \/ Subscribe \/ FeedHistory

HistorySpec == HistoryInit /\ [][HistoryNext]_vars

\* the snapshot computation on a fleet of machines
FleetInit ==
    /\ \E n \in 0..MaxMachines : \E k \in 0..n : Start(FleetFile(n, k), {})
    /\ source = "ok"

FleetNext == Tick(FALSE)

FleetSpec == FleetInit /\ [][FleetNext]_vars

---------------------------------------------------------------------------
(* Properties *)

\* a step that completes a tick of publisher_loop
TickStep == clock' = clock + 1

\* the messages a tick step put on queue q
Enqueued(q) == SubSeq(queue'[q], Len(queue[q]) + 1, Len(queue'[q]))

EnqueuedOfType(q, key) == {i \in DOMAIN Enqueued(q) : Enqueued(q)[i].type = key}

\* the category's payload of this tick differs from the one of the previous
\* tick (on the first tick nothing has been published)
Differs(key) == clock = 0 \/ state'[key] # state[key]

TypesOf(msgs) == [i \in DOMAIN msgs |-> msgs[i].type]

\* C1: on every tick and for every category, a subscriber is sent one message
\* of that type when the category's payload differs from the one last
\* published and none when it does not, each category on its own; a
\* subscriber whose put raised is sent nothing more
C1_PublishOnChange ==
    [][TickStep =>
        \A key \in KeySet : \A q \in QueueIds :
            /\ Cardinality(EnqueuedOfType(q, key)) <= 1
            /\ \A i \in EnqueuedOfType(q, key) :
                  /\ q \in subscribers
                  /\ Differs(key)
                  /\ Enqueued(q)[i].data = state'[key]
            /\ (q \in subscribers /\ q \in subscribers' /\ Differs(key))
                  => EnqueuedOfType(q, key) # {}]_vars

\* C1 witness: a subscriber is sent all three categories on the first tick and,
\* on the second, emissions and status but no alerts message
C1_Witness ==
    \E q \in subscribers :
        /\ clock = 2
        /\ TypesOf(queue[q]) = <<"alerts", "emissions", "status", "emissions", "status">>
        /\ queue[q][4].last_update = 2

\* C2: a subscriber whose client has disconnected does not stay registered
\* through DeregisterTicks ticks
C2_DisconnectedDeregistered == \A q \in QueueIds : stale[q] < DeregisterTicks

\* C3: a tick that finds the input missing or unreadable leaves the published
\* alerts, emissions and status as the previous tick published them
C3_StateRetained ==
    [][(TickStep /\ clock > 0 /\ source # "ok") =>
          /\ state'.alerts = state.alerts
          /\ state'.emissions = state.emissions
          /\ state'.status = state.status]_vars

\* a numeric cell that float() could not parse
Unparsable(c) == c.kind = "badtext"

HasUnparsable(r) ==
    \E k \in {"timestamp", "temperature", "vibration", "energy_consumption"} :
        Unparsable(r[k])

\* C4: a record that has a machine_id and an unparsable numeric field is
\* ingested: the tick that read it completes, counts it in
\* total_records_processed and lists its machine
C4_MalformedFieldIngested ==
    \A i \in DOMAIN rows :
        (mid(rows[i]) # "" /\ HasUnparsable(rows[i])) =>
            /\ pc = "running"
            /\ state.status.total_records_processed = Len(rows)
            /\ \E j \in DOMAIN state.emissions :
                  state.emissions[j].machine_id = mid(rows[i])

\* C5: the publisher loop never stops, whatever the file holds and whatever
\* the subscribers do
C5_LoopNeverStops == pc = "running"

KeyIndex(key) == CHOOSE i \in DOMAIN Keys : Keys[i] = key

\* the put_nowait of this tick step for q raised at this category or an earlier one
FailedBy(q, key) == raised'[q] # "none" /\ KeyIndex(raised'[q]) <= KeyIndex(key)

\* C6: when put_nowait raises for a subscriber, the tick still completes, that
\* subscriber is discarded, and every other subscriber registered at that
\* moment is sent the message of every changed category
C6_FailureIsolated ==
    [][TickStep =>
        \A q \in QueueIds : raised'[q] # "none" =>
            /\ q \in subscribers
            /\ q \notin subscribers'
            /\ EnqueuedOfType(q, raised'[q]) = {}
            /\ \A p \in subscribers \ {q} : \A key \in KeySet :
                  (Differs(key) /\ ~FailedBy(p, key)) => EnqueuedOfType(p, key) # {}
            /\ \A p \in subscribers : raised'[p] = "none" => p \in subscribers']_vars

\* C6 witness: put_nowait raised for one subscriber on the status message and
\* another subscriber, still registered, holds the status message of that tick
C6_Witness ==
    \E q \in QueueIds : \E p \in subscribers :
        /\ raised[q] = "status"
        /\ q \notin subscribers
        /\ p # q
        /\ \E i \in DOMAIN queue[p] :
              queue[p][i].type = "status" /\ queue[p][i].last_update = clock

\* machine ids in the order of Python's string comparison
IdOrder == <<"", "M1", "M10", "M11", "M12", "M2", "M3", "M4", "M5", "M6", "M7",
             "M8", "M9", "unknown">>

IdRank(m) == CHOOSE i \in DOMAIN IdOrder : IdOrder[i] = m

\* C7: the published emissions are in descending order of cumulative_co2_kg,
\* and machines with equal cumulative_co2_kg are in ascending machine_id order
C7_EmissionsOrdered ==
    \A i, j \in DOMAIN state.emissions :
        i < j =>
            \/ state.emissions[i].cumulative_co2_kg > state.emissions[j].cumulative_co2_kg
            \/ /\ state.emissions[i].cumulative_co2_kg = state.emissions[j].cumulative_co2_kg
               /\ IdRank(state.emissions[i].machine_id) < IdRank(state.emissions[j].machine_id)

\* C8: system_health is HEALTHY exactly when there is no anomaly; otherwise it
\* is CRITICAL exactly when the anomalies reach max(1, active_machines div 4),
\* and DEGRADED below that
C8_HealthRule ==
    clock > 0 =>
        LET anomalies == state.status.total_anomalies_detected
            quarter == state.status.active_machines \div 4
            limit == IF quarter > 1 THEN quarter ELSE 1
            health == state.status.system_health
        IN /\ health \in {"HEALTHY", "DEGRADED", "CRITICAL"}
           /\ health = "HEALTHY" <=> anomalies = 0
           /\ anomalies # 0 => (health = "CRITICAL" <=> anomalies >= limit)
           /\ (anomalies # 0 /\ anomalies < limit) => health = "DEGRADED"

\* C8 witness: ten machines with one anomaly are DEGRADED
C8_Witness ==
    /\ clock > 0
    /\ state.status.active_machines = 10
    /\ state.status.total_anomalies_detected = 1
    /\ state.status.system_health = "DEGRADED"

\* the machines of the rows read by the latest tick
MachinesRead == {mid(rows[i]) : i \in DOMAIN rows}

\* C9: the published alerts hold at most one alert for a machine,
\* total_anomalies_detected is their number, and it does not exceed
\* active_machines
C9_OneAlertPerMachine ==
    clock > 0 =>
        /\ \A i, j \in DOMAIN state.alerts :
              state.alerts[i].machine_id = state.alerts[j].machine_id => i = j
        /\ state.status.total_anomalies_detected = Len(state.alerts)
        /\ state.status.total_anomalies_detected <= state.status.active_machines

\* the readings of machine m, among the rows read, whose field k is a number
NumericReadings(m, k) ==
    {i \in DOMAIN rows : rows[i].machine_id = m /\ rows[i][k].kind = "float"}

RECURSIVE SumOver(_, _)
SumOver(I, k) ==
    IF I = {} THEN 0
    ELSE LET i == CHOOSE x \in I : TRUE IN rows[i][k].val + SumOver(I \ {i}, k)

\* max_temperature > avg_temperature * 1.2 over the machine's temperatures
TemperatureCondition(m) ==
    LET I == NumericReadings(m, "temperature")
    IN \E i \in I :
          /\ \A j \in I : rows[j].temperature.val <= rows[i].temperature.val
          /\ rows[i].temperature.val * 10 * Cardinality(I)
                > SumOver(I, "temperature") * TEMPERATURE_MULTIPLIER_TENTHS

\* max_vibration > vibration_threshold over the machine's vibrations
VibrationCondition(m) ==
    \E i \in NumericReadings(m, "vibration") :
        rows[i].vibration.val > VIBRATION_THRESHOLD

\* C9 witness: both conditions hold for the one machine read, and it has a
\* single alert
C9_Witness ==
    /\ clock > 0
    /\ pc = "running"
    /\ MachinesRead = {"M1"}
    /\ TemperatureCondition("M1")
    /\ VibrationCondition("M1")
    /\ Len(state.alerts) = 1
    /\ state.status.total_anomalies_detected = 1

\* C10: after a tick, a machine that has readings has an alert exactly when
\* its temperature condition or its vibration condition holds; the alert is a
\* TEMP_SPIKE when the temperature condition holds and a HIGH_VIBRATION when
\* only the vibration condition does
C10_AlertRule ==
    (clock > 0 /\ pc = "running") =>
        \A m \in MachinesRead :
            LET A == {j \in DOMAIN state.alerts : state.alerts[j].machine_id = m}
            IN /\ A # {} <=> (TemperatureCondition(m) \/ VibrationCondition(m))
               /\ \A j \in A :
                     state.alerts[j].anomaly_type =
                        IF TemperatureCondition(m) THEN "TEMP_SPIKE" ELSE "HIGH_VIBRATION"

\* C10 witness: one machine alerts for its temperature while its vibration
\* condition holds too, another for its vibration alone
C10_Witness ==
    /\ clock > 0
    /\ pc = "running"
    /\ TemperatureCondition("M1") /\ VibrationCondition("M1")
    /\ ~TemperatureCondition("M2") /\ VibrationCondition("M2")
    /\ \E i, j \in DOMAIN state.alerts :
          /\ state.alerts[i].machine_id = "M1"
          /\ state.alerts[i].anomaly_type = "TEMP_SPIKE"
          /\ state.alerts[j].machine_id = "M2"
          /\ state.alerts[j].anomaly_type = "HIGH_VIBRATION"

\* max_vibration > vibration_threshold * 1.2 over the machine's vibrations
StrongVibration(m) ==
    \E i \in NumericReadings(m, "vibration") :
        rows[i].vibration.val * 10 > VIBRATION_THRESHOLD * 12

\* C11: an alert's severity is HIGH exactly when it is a TEMP_SPIKE or the
\* machine's largest vibration exceeds 1.2 times the threshold, and MEDIUM
\* otherwise
C11_SeverityRule ==
    (clock > 0 /\ pc = "running") =>
        \A j \in DOMAIN state.alerts :
            /\ state.alerts[j].severity \in {"HIGH", "MEDIUM"}
            /\ state.alerts[j].severity = "HIGH" <=>
                  \/ state.alerts[j].anomaly_type = "TEMP_SPIKE"
                  \/ StrongVibration(state.alerts[j].machine_id)

\* C11 witness: two HIGH_VIBRATION alerts, a MEDIUM one for a vibration
\* between the threshold and 1.2 times it and a HIGH one above that
C11_Witness ==
    /\ clock > 0
    /\ pc = "running"
    /\ \E i, j \in DOMAIN state.alerts :
          /\ state.alerts[i].anomaly_type = "HIGH_VIBRATION"
          /\ state.alerts[i].severity = "MEDIUM"
          /\ VibrationCondition(state.alerts[i].machine_id)
          /\ ~StrongVibration(state.alerts[i].machine_id)
          /\ state.alerts[j].anomaly_type = "HIGH_VIBRATION"
          /\ state.alerts[j].severity = "HIGH"
          /\ StrongVibration(state.alerts[j].machine_id)

\* C12: a record without a machine_id creates no aggregate: no emissions
\* entry and no alert carries the empty machine_id, and active_machines
\* counts only the machines that are named
C12_NoMachineIdRejected ==
    (clock > 0 /\ pc = "running") =>
        /\ \A j \in DOMAIN state.emissions : state.emissions[j].machine_id # ""
        /\ \A j \in DOMAIN state.alerts : state.alerts[j].machine_id # ""
        /\ state.status.active_machines = Cardinality(MachinesRead \ {""})

\* queue q keeps its messages in a step, but for the ones taken at its head
KeepsTail(q) ==
    /\ Len(queue'[q]) <= Len(queue[q])
    /\ queue'[q] = SubSeq(queue[q], Len(queue[q]) - Len(queue'[q]) + 1, Len(queue[q]))

\* C13: a queue is empty when it is registered, no step but a tick adds to
\* it, and the messages a tick adds carry that tick's time and the new payload
\* of a category that changed on that tick
C13_OnlyFutureChanges ==
    [][\A q \in QueueIds :
          /\ (conn[q] = "unused" /\ conn'[q] # "unused")
                => (queue'[q] = <<>> /\ q \in subscribers')
          /\ ~TickStep => KeepsTail(q)
          /\ TickStep =>
                /\ SubSeq(queue'[q], 1, Len(queue[q])) = queue[q]
                /\ Enqueued(q) # <<>> => q \in subscribers
                /\ \A i \in DOMAIN Enqueued(q) :
                      /\ Enqueued(q)[i].last_update = clock'
                      /\ Differs(Enqueued(q)[i].type)
                      /\ Enqueued(q)[i].data = state'[Enqueued(q)[i].type]]_vars

\* C13 witness: after two ticks a connected subscriber holds only the second
\* tick's emissions and status messages, and nothing of the alerts published
\* by the first tick and unchanged since
C13_Witness ==
    \E q \in subscribers :
        /\ clock = 2
        /\ conn[q] = "open"
        /\ TypesOf(queue[q]) = <<"emissions", "status">>
        /\ \A i \in DOMAIN queue[q] : queue[q][i].last_update = 2
        /\ state.alerts = <<>>

\* the temperatures ingested for machine m among the rows rs
TemperaturesOf(rs, m) ==
    {rs[i].temperature.val : i \in {j \in DOMAIN rs :
        rs[j].machine_id = m /\ rs[j].temperature.kind = "float"}}

\* C14: at every tick the max_temperature of a machine that has temperatures
\* is the largest temperature ingested for it so far, and it is not below the
\* max_temperature of the previous tick
C14_MaxTemperatureMonotone ==
    [][TickStep =>
        \A m \in {rows'[i].machine_id : i \in DOMAIN rows'} :
            /\ TemperaturesOf(rows', m) # {} =>
                  /\ max_temp(by_machine(rows', m)) \in TemperaturesOf(rows', m)
                  /\ \A t \in TemperaturesOf(rows', m) : t <= max_temp(by_machine(rows', m))
            /\ TemperaturesOf(rows, m) # {} =>
                  /\ TemperaturesOf(rows, m) \subseteq TemperaturesOf(rows', m)
                  /\ max_temp(by_machine(rows', m)) >= max_temp(by_machine(rows, m))]_vars

\* C14 witness: the second tick has read, for one machine, a temperature of
\* 100 followed by a lower one, and the machine still alerts for the spike
C14_Witness ==
    /\ clock = 2
    /\ pc = "running"
    /\ \E i, j \in DOMAIN rows :
          /\ i < j
          /\ rows[i].machine_id = "M1" /\ rows[j].machine_id = "M1"
          /\ rows[i].temperature = Float(100)
          /\ rows[j].temperature = Float(60)
    /\ max_temp(by_machine(rows, "M1")) = 100
    /\ \E a \in DOMAIN state.alerts :
          /\ state.alerts[a].machine_id = "M1"
          /\ state.alerts[a].anomaly_type = "TEMP_SPIKE"

\* the arrival orders of the readings rs
Reordered(rs) == {[i \in DOMAIN rs |-> rs[p[i]]] : p \in Permutations(DOMAIN rs)}

\* C15: the avg_temperature of a machine is the sum / count of the
\* temperatures ingested for it, the same in whatever order the readings
\* arrived
C15_AverageOrderIndependent ==
    (clock > 0 /\ pc = "running") =>
        \A j \in DOMAIN state.alerts :
            \A rs \in Reordered(rows) :
                avg_temp(by_machine(rs, state.alerts[j].machine_id))
                    = state.alerts[j].avg_temperature

\* the machines of a list of alerts, in the order of the list
MachinesOf(alerts) == [i \in DOMAIN alerts |-> alerts[i].machine_id]

\* C16: the machines of the published alerts are in the same order in
\* whatever order the same readings arrived
C16_AlertOrderDeterministic ==
    (clock > 0 /\ pc = "running") =>
        \A rs \in Reordered(rows) :
            ~ComputeRaises(rs) => MachinesOf(alerts_of(rs)) = MachinesOf(state.alerts)

\* C17: every alert reports the temperature, vibration and time of a reading
\* of its machine whose timestamp is the largest of that machine's readings
C17_CurrentFromLatest ==
    (clock > 0 /\ pc = "running") =>
        \A j \in DOMAIN state.alerts :
            \E i \in DOMAIN rows :
                /\ rows[i].machine_id = state.alerts[j].machine_id
                /\ rows[i].timestamp.kind = "float"
                /\ \A k \in DOMAIN rows :
                      rows[k].machine_id = rows[i].machine_id =>
                          /\ rows[k].timestamp.kind = "float"
                          /\ rows[k].timestamp.val <= rows[i].timestamp.val
                /\ state.alerts[j].current_temperature = rows[i].temperature
                /\ state.alerts[j].current_vibration = rows[i].vibration
                /\ state.alerts[j].alert_time = isoformat(rows[i].timestamp.val)

\* C17 witness: the reading with the largest timestamp arrived before an
\* older one of the same machine, and the alert reports the former
C17_Witness ==
    /\ clock > 0
    /\ pc = "running"
    /\ Len(rows) = 2
    /\ rows[1].machine_id = "M1" /\ rows[2].machine_id = "M1"
    /\ rows[1].timestamp = Float(2) /\ rows[2].timestamp = Float(1)
    /\ rows[1].temperature # rows[2].temperature
    /\ \E j \in DOMAIN state.alerts :
          /\ state.alerts[j].machine_id = "M1"
          /\ state.alerts[j].current_temperature = rows[1].temperature
          /\ state.alerts[j].alert_time = isoformat(2)

\* C18: state changes only in a step that completes a tick, and then all four
\* of its entries are those of that tick: the snapshot computed from the rows
\* the tick read and the tick's time; a pull response is the published value
\* of its category and the request changes nothing of state
C18_SnapshotWhole ==
    [][/\ state' # state =>
            /\ TickStep
            /\ state'.alerts = compute_snapshots(rows').alerts
            /\ state'.emissions = compute_snapshots(rows').emissions
            /\ state'.status = compute_snapshots(rows').status
            /\ state'.last_update = Some(clock')
       /\ response' # response =>
            /\ state' = state
            /\ response'[1].body = state[response'[1].endpoint]]_vars

\* C18 witness: a status query answered between the first and the second
\* tick, with the first tick's status, while state holds the second tick's
C18_Witness ==
    /\ clock = 2
    /\ response # None
    /\ response[1].endpoint = "status"
    /\ response[1].body # EmptyDict
    /\ response[1].body.total_records_processed = 0
    /\ state.status.total_records_processed = 1
    /\ state.last_update = Some(2)

\* the position in queue q of the latest message of type key (0: there is none)
LatestOfType(q, key) ==
    LET I == {i \in DOMAIN queue[q] : queue[q][i].type = key}
    IN IF I = {} THEN 0 ELSE CHOOSE i \in I : \A j \in I : j <= i

\* queue q has been registered since before the first tick: it is registered
\* and holds a message of that tick
SinceFirstTick(q) ==
    /\ q \in subscribers
    /\ queue[q] # <<>>
    /\ queue[q][1].last_update = 1

\* C19: after every tick the last published snapshot of each category is the
\* published state of that category, and so is the data of the latest message
\* of that type on the queue of a subscriber registered since before the
\* first tick
C19_NoChangeMissed ==
    clock > 0 =>
        \A key \in KeySet :
            /\ last_snapshots[key] = Some(state[key])
            /\ \A q \in QueueIds :
                  SinceFirstTick(q) =>
                      /\ LatestOfType(q, key) # 0
                      /\ queue[q][LatestOfType(q, key)].data = state[key]

\* C19 witness: the second tick changed the emissions, and the latest
\* emissions message of a subscriber registered since the first tick is the
\* second tick's
C19_Witness ==
    \E q \in QueueIds :
        /\ clock = 2
        /\ SinceFirstTick(q)
        /\ LatestOfType(q, "emissions") > 3
        /\ queue[q][LatestOfType(q, "emissions")].data = state.emissions
        /\ queue[q][2].data # state.emissions

\* C20: the first tick puts one message of each category, in the order
\* alerts, emissions, status, on the queue of every registered subscriber,
\* whatever the input holds and also when it is missing
C20_FirstTickPublishesAll ==
    [][(TickStep /\ clock = 0) =>
          \A q \in subscribers :
              /\ TypesOf(Enqueued(q)) = Keys
              /\ \A i \in DOMAIN Enqueued(q) :
                    /\ Enqueued(q)[i].data = state'[Keys[i]]
                    /\ Enqueued(q)[i].last_update = 1]_vars

\* C20 witness: the first tick found no input file, and the subscriber holds
\* an alerts message with no alert, an emissions message with no entry and a
\* status message
C20_Witness ==
    \E q \in subscribers :
        /\ clock = 1
        /\ source = "missing"
        /\ rows = <<>>
        /\ TypesOf(queue[q]) = Keys
        /\ queue[q][1].data = <<>>
        /\ queue[q][2].data = <<>>
        /\ queue[q][3].data.system_health = "HEALTHY"

\* alerts holds an alert for machine m
HasAlert(alerts, m) == \E j \in DOMAIN alerts : alerts[j].machine_id = m

\* C21: while the file is readable and only appended to, a machine that had
\* ingested a vibration above the threshold by the previous tick has an alert
\* after every later tick
C21_VibrationAlertStays ==
    [][TickStep =>
          /\ SubSeq(rows', 1, Len(rows)) = rows
          /\ \A m \in MachinesRead :
                VibrationCondition(m) =>
                    /\ clock > 0 => HasAlert(state.alerts, m)
                    /\ HasAlert(state'.alerts, m)]_vars

\* C21 witness: the subscriber was sent a TEMP_SPIKE alert for M1 by the first
\* tick; by the second tick a further reading has raised M1's average and M1,
\* which never had a vibration above the threshold, has no alert left
C21_Witness ==
    \E q \in subscribers :
        /\ clock = 2
        /\ queue[q] # <<>>
        /\ queue[q][1].type = "alerts"
        /\ queue[q][1].last_update = 1
        /\ \E j \in DOMAIN queue[q][1].data :
              /\ queue[q][1].data[j].machine_id = "M1"
              /\ queue[q][1].data[j].anomaly_type = "TEMP_SPIKE"
        /\ "M1" \in MachinesRead
        /\ ~VibrationCondition("M1")
        /\ ~HasAlert(state.alerts, "M1")

====
